---- MODULE Spec2Model ----
(***************************************************************************)
(* Token lifecycle of the FastAPI JWT service (src/main.py): issuance of   *)
(* access and refresh tokens, strict verification, refresh rotation,       *)
(* logout and admin revocation, over the tokens table (src/models.py) and  *)
(* the two process-wide in-memory sets _revoked_jtis, _valid_refresh_jtis. *)
(*                                                                         *)
(* Time is counted in minutes.  A signed token is the record               *)
(* [signed_by, alg, claims]; python-jose's jwt.encode / jwt.decode are     *)
(* modelled by what they do to it (signature, exp, aud validation, in      *)
(* that order).  Handlers that only touch the database or add a fresh jti  *)
(* are one action each; /token/refresh is split at every access to the     *)
(* shared sets, because FastAPI runs sync handlers on a thread pool.       *)
(***************************************************************************)
EXTENDS Integers, FiniteSets, Sequences, TLC

\* ---------------------------------------------------------------- bounds
\* number of uuid4() draws the model follows
MaxJti == 2
\* number of clock advances the model follows
MaxTicks == 2
\* number of worker threads serving /token/refresh at the same time
MaxThreads == 2

Threads == 1..MaxThreads

\* ------------------------------------------------------ program constants
ALGORITHM == "RS256"
PRIVATE_KEY == "private.pem"
PUBLIC_KEY == "public.pem"
ISSUER == "myblogapp.com"
AUDIENCE == "myblogapp_users"
ACCESS_TOKEN_EXP_MIN == 15
REFRESH_TOKEN_EXP_DAYS == 30

\* timedelta(minutes=m), timedelta(days=d) in minutes
Minutes(m) == m
Days(d) == d * 24 * 60

\* Python's None where a string is expected, and an absent cookie / header
None == "None"
NoToken == [none |-> TRUE]
\* a key pair other than the service's (a forger's)
OTHER_KEY == "other.pem"
\* the private key a public key verifies
PairOf(pub) == IF pub = PUBLIC_KEY THEN PRIVATE_KEY ELSE None

\* ------------------------------------------------------------ users table
\* rows of the users table with their user_permissions (src/models.py);
\* /register only ever creates role "user", an admin row is seeded.
Users ==
    { [id |-> 1, username |-> "alice", email |-> None, role |-> "user",
       permissions |-> {}],
      [id |-> 2, username |-> "root", email |-> "root@myblogapp.com",
       role |-> "admin", permissions |-> {"create_post", "edit_post"}] }

Usernames == {u.username : u \in Users} \cup {"mallory"}

\* db.query(User).filter(<field> == v).first()
UserByName(name) ==
    IF \E u \in Users : u.username = name
    THEN CHOOSE u \in Users : u.username = name
    ELSE NoToken
UserById(id) ==
    IF \E u \in Users : u.id = id
    THEN CHOOSE u \in Users : u.id = id
    ELSE NoToken

VARIABLES
    now,                  \* time.time() / datetime.utcnow(), in minutes
    ticks,                \* clock advances so far
    uuids,                \* uuid4() draws so far
    tokens_table,         \* rows of the tokens table, in insertion order
    _revoked_jtis,        \* module-level set
    _valid_refresh_jtis,  \* module-level set
    delivered,            \* signed tokens handed to callers in a response
    pc,                   \* where each /token/refresh thread stands
    local,                \* locals of each /token/refresh thread
    passed,               \* per jti: requests that took it past line 233
    boot,                 \* uuid4() draws made before the process last started
    last                  \* the step that led here and its outcome

vars == <<now, ticks, uuids, tokens_table, _revoked_jtis, _valid_refresh_jtis,
          delivered, pc, local, passed, boot, last>>

\* the part of the state the issuing functions read and write
State == [uuids |-> uuids, table |-> tokens_table, valid |-> _valid_refresh_jtis]

\* --------------------------------------------------------------- helpers
\* dict.get(k)
Get(d, k) == IF k \in DOMAIN d THEN d[k] ELSE None

\* dict.update(extra)
Update(d, extra) ==
    [k \in DOMAIN d \cup DOMAIN extra |->
        IF k \in DOMAIN extra THEN extra[k] ELSE d[k]]

\* f"user_{user.id}"
Sub(id) == <<"user_", id>>

\* str(uuid4()): the n-th draw
Uuid(n) == n

\* the permissions without the default
PermissionsOf_NoDefault(user) == user.permissions

\* [perm.permission for perm in user.permissions] or ["read_post"]
PermissionsOf(user) ==
    IF user.permissions = {} THEN {"read_post"} ELSE user.permissions

\* jwt.encode(payload, key, algorithm)
jwt_encode(payload, key, algorithm) ==
    [signed_by |-> key, alg |-> algorithm, claims |-> payload]

\* jwt.decode(token, key, algorithms, audience) of python-jose at time t:
\* signature, then exp, then aud.  With audience = None a token that
\* carries an aud claim fails "Invalid audience" (None is not in the list).
jwt_decode(token, key, algorithms, audience, t) ==
    IF token = NoToken
        THEN [raised |-> "JWTError", msg |-> "Not enough segments"]
    ELSE IF ~(token.alg \in algorithms /\ token.signed_by = PairOf(key))
        THEN [raised |-> "JWTError", msg |-> "Signature verification failed."]
    ELSE IF token.claims.exp < t
        THEN [raised |-> "ExpiredSignatureError", msg |-> "Signature has expired."]
    ELSE IF "aud" \in DOMAIN token.claims /\ token.claims.aud # audience
        THEN [raised |-> "JWTError", msg |-> "Invalid audience"]
    ELSE [raised |-> None, payload |-> token.claims]

\* a db session: present with a commit that succeeds or fails, or not passed
Session(commit_ok) == [commit_ok |-> commit_ok]
NoDb == [missing |-> TRUE]

\* extra = None, expires_minutes = None / expires_days = None
NoExtra == <<>>
NoExpiry == 0

\* ------------------------------------------------------------- issuance
Row(table, user, jti, token_type, expires) ==
    [id |-> Len(table) + 1, user_id |-> user.id, jti |-> jti,
     token_type |-> token_type, expires_at |-> expires, revoked |-> FALSE,
     created_at |-> now]

\* create_access_token_for_user(*, user, db, extra, expires_minutes) run in
\* state st: the state it leaves, what it raised, what it returned
create_access_token_for_user(st, user, db, extra, expires_minutes) ==
    IF db = NoDb
    THEN [st |-> st, raised |-> "TypeError"]
    ELSE
    LET iat == now
        expires == now + Minutes(IF expires_minutes # 0 THEN expires_minutes
                                 ELSE ACCESS_TOKEN_EXP_MIN)
        jti == Uuid(st.uuids + 1)
        base == [iss |-> ISSUER, sub |-> Sub(user.id), aud |-> AUDIENCE,
                 iat |-> iat, nbf |-> iat, exp |-> expires, jti |-> jti,
                 type |-> "access", user_id |-> user.id, email |-> user.email,
                 role |-> user.role, name |-> user.username,
                 permissions |-> PermissionsOf(user)]
        payload == IF DOMAIN extra # {} THEN Update(base, extra) ELSE base
        token == jwt_encode(payload, PRIVATE_KEY, ALGORITHM)
        token_rec == Row(st.table, user, jti, "access", expires)
    IN  IF db.commit_ok
        THEN [st |-> [st EXCEPT !.uuids = @ + 1, !.table = Append(@, token_rec)],
              raised |-> None,
              ret |-> [token |-> token, jti |-> jti, exp |-> expires]]
        ELSE [st |-> [st EXCEPT !.uuids = @ + 1], raised |-> "SQLAlchemyError"]

\* the jti entered into _valid_refresh_jtis before the commit, so also when
\* the commit fails
create_refresh_token_for_user_AddFirst(st, user, db, expires_days) ==
    IF db = NoDb
    THEN [st |-> st, raised |-> "TypeError"]
    ELSE
    LET iat == now
        expires == now + Days(IF expires_days # 0 THEN expires_days
                              ELSE REFRESH_TOKEN_EXP_DAYS)
        jti == Uuid(st.uuids + 1)
        payload == [iss |-> ISSUER, sub |-> Sub(user.id), aud |-> AUDIENCE,
                    iat |-> iat, nbf |-> iat, exp |-> expires, jti |-> jti,
                    type |-> "refresh", user_id |-> user.id]
        token == jwt_encode(payload, PRIVATE_KEY, ALGORITHM)
        token_rec == Row(st.table, user, jti, "refresh", expires)
    IN  IF db.commit_ok
        THEN [st |-> [st EXCEPT !.uuids = @ + 1, !.table = Append(@, token_rec),
                                !.valid = @ \cup {jti}],
              raised |-> None,
              ret |-> [token |-> token, jti |-> jti, exp |-> expires]]
        ELSE [st |-> [st EXCEPT !.uuids = @ + 1, !.valid = @ \cup {jti}],
              raised |-> "SQLAlchemyError"]

\* create_refresh_token_for_user(*, user, db, expires_days)
create_refresh_token_for_user(st, user, db, expires_days) ==
    IF db = NoDb
    THEN [st |-> st, raised |-> "TypeError"]
    ELSE
    LET iat == now
        expires == now + Days(IF expires_days # 0 THEN expires_days
                              ELSE REFRESH_TOKEN_EXP_DAYS)
        jti == Uuid(st.uuids + 1)
        payload == [iss |-> ISSUER, sub |-> Sub(user.id), aud |-> AUDIENCE,
                    iat |-> iat, nbf |-> iat, exp |-> expires, jti |-> jti,
                    type |-> "refresh", user_id |-> user.id]
        token == jwt_encode(payload, PRIVATE_KEY, ALGORITHM)
        token_rec == Row(st.table, user, jti, "refresh", expires)
    IN  IF db.commit_ok
        THEN [st |-> [st EXCEPT !.uuids = @ + 1, !.table = Append(@, token_rec),
                                !.valid = @ \cup {jti}],
              raised |-> None,
              ret |-> [token |-> token, jti |-> jti, exp |-> expires]]
        ELSE [st |-> [st EXCEPT !.uuids = @ + 1], raised |-> "SQLAlchemyError"]

\* --------------------------------------------------------- verification
\* the verification without the look-up in _revoked_jtis
verify_jwt_token_strict_NoRevocation(token, check_audience, check_issuer) ==
    IF token = NoToken
    THEN [raised |-> "Missing token"]
    ELSE
    LET d == jwt_decode(token, PUBLIC_KEY, {ALGORITHM},
                        IF check_audience THEN AUDIENCE ELSE None, now)
    IN  IF d.raised = "ExpiredSignatureError"
            THEN [raised |-> "Token expired"]
        ELSE IF d.raised = "JWTError"
            THEN [raised |-> "Token invalid", msg |-> d.msg]
        ELSE IF check_issuer /\ Get(d.payload, "iss") # ISSUER
            THEN [raised |-> "Invalid token issuer"]
        ELSE [raised |-> None, payload |-> d.payload]

\* verify_jwt_token_strict(token, check_audience, check_issuer): the detail
\* of the HTTPException it raises, or the payload it returns
verify_jwt_token_strict(token, check_audience, check_issuer) ==
    IF token = NoToken
    THEN [raised |-> "Missing token"]
    ELSE
    LET d == jwt_decode(token, PUBLIC_KEY, {ALGORITHM},
                        IF check_audience THEN AUDIENCE ELSE None, now)
    IN  IF d.raised = "ExpiredSignatureError"
            THEN [raised |-> "Token expired"]
        ELSE IF d.raised = "JWTError"
            THEN [raised |-> "Token invalid", msg |-> d.msg]
        ELSE IF check_issuer /\ Get(d.payload, "iss") # ISSUER
            THEN [raised |-> "Invalid token issuer"]
        ELSE IF Get(d.payload, "jti") \in _revoked_jtis
            THEN [raised |-> "Token revoked"]
        ELSE [raised |-> None, payload |-> d.payload]

\* ------------------------------------------------------------ the state
Jtis == 1..MaxJti

Init ==
    /\ now = 0
    /\ ticks = 0
    /\ uuids = 0
    /\ tokens_table = <<>>
    /\ _revoked_jtis = {}
    /\ _valid_refresh_jtis = {}
    /\ delivered = {}
    /\ pc = [t \in Threads |-> "idle"]
    /\ local = [t \in Threads |-> NoToken]
    /\ passed = [j \in Jtis |-> 0]
    /\ boot = 0
    /\ last = [op |-> "start"]

\* the clock moves on by one access or one refresh lifetime
TickSteps == {Minutes(ACCESS_TOKEN_EXP_MIN), Days(REFRESH_TOKEN_EXP_DAYS)}

Tick(d) ==
    /\ ticks < MaxTicks
    /\ now' = now + d
    /\ ticks' = ticks + 1
    /\ last' = [op |-> "tick"]
    /\ UNCHANGED <<uuids, tokens_table, _revoked_jtis, _valid_refresh_jtis,
                   delivered, pc, local, passed, boot>>

\* POST /login
login_user(username, password_ok, commit1, commit2) ==
    LET user == UserByName(username) IN
    IF user = NoToken \/ ~password_ok
    THEN /\ last' = [op |-> "login", username |-> username,
                     raised |-> "Invalid credentials"]
         /\ UNCHANGED <<now, ticks, uuids, tokens_table, _revoked_jtis,
                        _valid_refresh_jtis, delivered, pc, local, passed, boot>>
    ELSE
    LET access == create_access_token_for_user(State, user, Session(commit1),
                                               NoExtra, NoExpiry)
        refresh == create_refresh_token_for_user(access.st, user,
                                                 Session(commit2), NoExpiry)
        final == IF access.raised # None THEN access ELSE refresh
        ok == final.raised = None
    IN  /\ uuids + 2 <= MaxJti
        /\ uuids' = final.st.uuids
        /\ tokens_table' = final.st.table
        /\ _valid_refresh_jtis' = final.st.valid
        /\ delivered' = IF ok THEN delivered \cup {access.ret.token, refresh.ret.token}
                        ELSE delivered
        /\ last' = IF ok
                   THEN [op |-> "login", username |-> username, raised |-> None,
                         access |-> access.ret, refresh |-> refresh.ret]
                   ELSE [op |-> "login", username |-> username,
                         raised |-> final.raised]
        /\ UNCHANGED <<now, ticks, _revoked_jtis, pc, local, passed, boot>>

\* ----------------------------------------------------- what a caller sends
\* the same claims under a signature of another key pair
Forge(token) == [token EXCEPT !.signed_by = OTHER_KEY]
\* a token of the same key pair minted for another issuer / audience
ForeignIss(token) == [token EXCEPT !.claims.iss = "otherapp.com"]
ForeignAud(token) == [token EXCEPT !.claims.aud = "otherapp_users"]

\* cookies a browser holds; tokens anyone can put in a request
Cookies == delivered \cup {NoToken}
Presented == Cookies \cup {Forge(c) : c \in delivered}
\* arguments verify_jwt_token_strict is applied to
VerifyInputs ==
    Presented \cup {ForeignIss(c) : c \in delivered}
              \cup {ForeignAud(c) : c \in delivered}
              \cup {ForeignIss(ForeignAud(c)) : c \in delivered}
              \cup {Forge(ForeignIss(ForeignAud(c))) : c \in delivered}

\* a verification that records the jti of every token it rejects
Verify_Recording(token, check_audience, check_issuer) ==
    LET v == verify_jwt_token_strict(token, check_audience, check_issuer) IN
    /\ last' = [op |-> "verify", token |-> token,
                check_audience |-> check_audience,
                check_issuer |-> check_issuer, result |-> v]
    /\ _revoked_jtis' = IF v.raised \notin {None, "Missing token"}
                        THEN _revoked_jtis \cup {token.claims.jti}
                        ELSE _revoked_jtis
    /\ UNCHANGED <<now, ticks, uuids, tokens_table,
                   _valid_refresh_jtis, delivered, pc, local, passed, boot>>

\* a call of verify_jwt_token_strict on its own (GET /protected calls it
\* with the defaults)
Verify(token, check_audience, check_issuer) ==
    /\ last' = [op |-> "verify", token |-> token,
                check_audience |-> check_audience,
                check_issuer |-> check_issuer,
                result |-> verify_jwt_token_strict(token, check_audience,
                                                   check_issuer)]
    /\ UNCHANGED <<now, ticks, uuids, tokens_table, _revoked_jtis,
                   _valid_refresh_jtis, delivered, pc, local, passed, boot>>

\* ------------------------------------------------------ POST /token/refresh
\* the HTTPException that ends the request of thread t
Reject(t, token, detail) ==
    /\ pc' = [pc EXCEPT ![t] = "idle"]
    /\ local' = [local EXCEPT ![t] = NoToken]
    /\ last' = [op |-> "refresh", thread |-> t, token |-> token,
                raised |-> detail]

\* the pool hands a request to its first free worker
FreeWorker(t) == pc[t] = "idle" /\ \A k \in Threads : k < t => pc[k] # "idle"

\* the type check of lines 229-230 left out
RefreshVerify_AnyType(t, token) ==
    /\ FreeWorker(t)
    /\ LET v == verify_jwt_token_strict(token, TRUE, TRUE) IN
       IF token = NoToken
           THEN Reject(t, token, "Missing refresh token")
       ELSE IF v.raised # None
           THEN Reject(t, token, v.raised)
       ELSE /\ pc' = [pc EXCEPT ![t] = "check"]
            /\ local' = [local EXCEPT ![t] = token]
            /\ last' = [op |-> "refresh_verified", thread |-> t]
    /\ UNCHANGED <<now, ticks, uuids, tokens_table, _revoked_jtis,
                   _valid_refresh_jtis, delivered, passed, boot>>

\* lines 221-232: read the token, verify it, require type refresh
RefreshVerify(t, token) ==
    /\ FreeWorker(t)
    /\ LET v == verify_jwt_token_strict(token, TRUE, TRUE) IN
       IF token = NoToken
           THEN Reject(t, token, "Missing refresh token")
       ELSE IF v.raised # None
           THEN Reject(t, token, v.raised)
       ELSE IF Get(v.payload, "type") # "refresh"
           THEN Reject(t, token, "Not a refresh token")
       ELSE /\ pc' = [pc EXCEPT ![t] = "check"]
            /\ local' = [local EXCEPT ![t] = token]
            /\ last' = [op |-> "refresh_verified", thread |-> t]
    /\ UNCHANGED <<now, ticks, uuids, tokens_table, _revoked_jtis,
                   _valid_refresh_jtis, delivered, passed, boot>>

\* old_jti = payload.get("jti")
OldJti(t) == Get(local[t].claims, "jti")

\* the membership check left out
StillValid_Unchecked(old_jti) == TRUE

\* line 233: old_jti in _valid_refresh_jtis
StillValid(old_jti) == old_jti \in _valid_refresh_jtis

\* lines 233-234
RefreshCheck(t) ==
    /\ pc[t] = "check"
    /\ IF ~StillValid(OldJti(t))
       THEN /\ Reject(t, local[t], "Refresh token invalid or revoked")
            /\ UNCHANGED passed
       ELSE /\ pc' = [pc EXCEPT ![t] = "discard"]
            /\ passed' = [passed EXCEPT ![OldJti(t)] = @ + 1]
            /\ last' = [op |-> "refresh_checked", thread |-> t]
            /\ UNCHANGED local
    /\ UNCHANGED <<now, ticks, uuids, tokens_table, _revoked_jtis,
                   _valid_refresh_jtis, delivered, boot>>

\* line 237 left out: the old jti stays in _valid_refresh_jtis
RefreshDiscard_Keeping(t) ==
    /\ pc[t] = "discard"
    /\ pc' = [pc EXCEPT ![t] = "add"]
    /\ last' = [op |-> "refresh_discarded", thread |-> t]
    /\ UNCHANGED <<now, ticks, uuids, tokens_table, _revoked_jtis,
                   _valid_refresh_jtis, delivered, local, passed, boot>>

\* line 237: _valid_refresh_jtis.discard(old_jti)
RefreshDiscard(t) ==
    /\ pc[t] = "discard"
    /\ _valid_refresh_jtis' = _valid_refresh_jtis \ {OldJti(t)}
    /\ pc' = [pc EXCEPT ![t] = "add"]
    /\ last' = [op |-> "refresh_discarded", thread |-> t]
    /\ UNCHANGED <<now, ticks, uuids, tokens_table, _revoked_jtis, delivered,
                   local, passed, boot>>

\* line 238: _revoked_jtis.add(old_jti)
RefreshAdd(t) ==
    /\ pc[t] = "add"
    /\ _revoked_jtis' = _revoked_jtis \cup {OldJti(t)}
    /\ pc' = [pc EXCEPT ![t] = "issue"]
    /\ last' = [op |-> "refresh_added", thread |-> t]
    /\ UNCHANGED <<now, ticks, uuids, tokens_table, _valid_refresh_jtis,
                   delivered, local, passed, boot>>

\* the db argument of the two issuing calls of lines 245-246: none is passed,
\* whatever session the request holds
RefreshDb(session) == NoDb

\* lines 240-253: look the user up, issue the new pair, answer
RefreshIssue(t, commit1, commit2) ==
    /\ pc[t] = "issue"
    /\ LET user == UserById(Get(local[t].claims, "user_id"))
           new_access == create_access_token_for_user(
                             State, user, RefreshDb(Session(commit1)),
                             NoExtra, NoExpiry)
           new_refresh == create_refresh_token_for_user(
                              new_access.st, user, RefreshDb(Session(commit2)),
                              NoExpiry)
           final == IF new_access.raised # None THEN new_access ELSE new_refresh
       IN  IF user = NoToken
           THEN /\ Reject(t, local[t], "User not found")
                /\ UNCHANGED <<uuids, tokens_table, _valid_refresh_jtis, delivered>>
           ELSE /\ final.st.uuids <= MaxJti
                /\ uuids' = final.st.uuids
                /\ tokens_table' = final.st.table
                /\ _valid_refresh_jtis' = final.st.valid
                /\ pc' = [pc EXCEPT ![t] = "idle"]
                /\ local' = [local EXCEPT ![t] = NoToken]
                /\ IF final.raised = None
                   THEN /\ delivered' = delivered \cup {new_access.ret.token,
                                                       new_refresh.ret.token}
                        /\ last' = [op |-> "refresh", thread |-> t,
                                    token |-> local[t], raised |-> None,
                                    access_token |-> new_access.ret.token,
                                    refresh_token |-> new_refresh.ret.token]
                   ELSE /\ delivered' = delivered
                        /\ last' = [op |-> "refresh", thread |-> t,
                                    token |-> local[t], raised |-> final.raised]
    /\ UNCHANGED <<now, ticks, _revoked_jtis, passed, boot>>

\* ------------------------------------------------------------ POST /logout
\* db.query(Token).filter(Token.jti == jti).first(): its index, 0 for None
FirstRow(table, jti) ==
    IF \E i \in 1..Len(table) : table[i].jti = jti
    THEN CHOOSE i \in 1..Len(table) :
             /\ table[i].jti = jti
             /\ \A k \in 1..(i - 1) : table[k].jti # jti
    ELSE 0

\* a revoke that deletes the row instead of flagging it
MarkRevoked_Deleting(table, jti) ==
    IF FirstRow(table, jti) # 0
    THEN SubSeq(table, 1, FirstRow(table, jti) - 1)
             \o SubSeq(table, FirstRow(table, jti) + 1, Len(table))
    ELSE table

\* a revoke that flips the flag instead of setting it
MarkRevoked_Toggling(table, jti) ==
    IF FirstRow(table, jti) # 0
    THEN [table EXCEPT ![FirstRow(table, jti)].revoked = ~@]
    ELSE table

\* if row: row.revoked = True; db.commit()
MarkRevoked(table, jti) ==
    IF FirstRow(table, jti) # 0
    THEN [table EXCEPT ![FirstRow(table, jti)].revoked = TRUE]
    ELSE table

\* a logout that also enters the two jtis into _revoked_jtis
logout_Indexing(refresh_token, access_token) ==
    /\ LET ref == jwt_decode(refresh_token, PUBLIC_KEY, {ALGORITHM}, AUDIENCE, now)
           acc == jwt_decode(access_token, PUBLIC_KEY, {ALGORITHM}, AUDIENCE, now)
       IN  IF refresh_token # NoToken /\ ref.raised = None /\ acc.raised = None
           THEN /\ tokens_table' =
                    MarkRevoked(MarkRevoked(tokens_table, Get(ref.payload, "jti")),
                                Get(acc.payload, "jti"))
                /\ _revoked_jtis' = _revoked_jtis \cup {Get(ref.payload, "jti"),
                                                        Get(acc.payload, "jti")}
           ELSE /\ tokens_table' = tokens_table
                /\ _revoked_jtis' = _revoked_jtis
    /\ last' = [op |-> "logout", refresh_token |-> refresh_token,
                access_token |-> access_token]
    /\ UNCHANGED <<now, ticks, uuids, _valid_refresh_jtis,
                   delivered, pc, local, passed, boot>>

logout(refresh_token, access_token) ==
    /\ LET ref == jwt_decode(refresh_token, PUBLIC_KEY, {ALGORITHM}, AUDIENCE, now)
           acc == jwt_decode(access_token, PUBLIC_KEY, {ALGORITHM}, AUDIENCE, now)
       IN  IF refresh_token # NoToken /\ ref.raised = None /\ acc.raised = None
           THEN tokens_table' =
                    MarkRevoked(MarkRevoked(tokens_table, Get(ref.payload, "jti")),
                                Get(acc.payload, "jti"))
           ELSE tokens_table' = tokens_table
    /\ last' = [op |-> "logout", refresh_token |-> refresh_token,
                access_token |-> access_token]
    /\ UNCHANGED <<now, ticks, uuids, _revoked_jtis, _valid_refresh_jtis,
                   delivered, pc, local, passed, boot>>

\* ------------------------------------------------------ POST /admin/revoke
\* an admin revoke that also enters the jti into the index
admin_revoke_Indexing(token_jti, cookie) ==
    /\ LET v == verify_jwt_token_strict(cookie, TRUE, TRUE)
           detail ==
               IF cookie = NoToken THEN "Not authenticated"
               ELSE IF v.raised # None THEN v.raised
               ELSE IF Get(v.payload, "role") # "admin" THEN "Admins only"
               ELSE IF FirstRow(tokens_table, token_jti) = 0 THEN "Token not found"
               ELSE None
       IN  /\ tokens_table' = IF detail = None
                              THEN MarkRevoked(tokens_table, token_jti)
                              ELSE tokens_table
           /\ _revoked_jtis' = IF detail = None
                               THEN _revoked_jtis \cup {token_jti}
                               ELSE _revoked_jtis
           /\ last' = IF detail = None
                      THEN [op |-> "admin_revoke", token_jti |-> token_jti,
                            raised |-> detail,
                            was_revoked |->
                                tokens_table[FirstRow(tokens_table, token_jti)].revoked]
                      ELSE [op |-> "admin_revoke", token_jti |-> token_jti,
                            raised |-> detail]
    /\ UNCHANGED <<now, ticks, uuids, _valid_refresh_jtis,
                   delivered, pc, local, passed, boot>>

admin_revoke(token_jti, cookie) ==
    /\ LET v == verify_jwt_token_strict(cookie, TRUE, TRUE)
           detail ==
               IF cookie = NoToken THEN "Not authenticated"
               ELSE IF v.raised # None THEN v.raised
               ELSE IF Get(v.payload, "role") # "admin" THEN "Admins only"
               ELSE IF FirstRow(tokens_table, token_jti) = 0 THEN "Token not found"
               ELSE None
       IN  /\ tokens_table' = IF detail = None
                              THEN MarkRevoked(tokens_table, token_jti)
                              ELSE tokens_table
           /\ last' = IF detail = None
                      THEN [op |-> "admin_revoke", token_jti |-> token_jti,
                            raised |-> detail,
                            was_revoked |->
                                tokens_table[FirstRow(tokens_table, token_jti)].revoked]
                      ELSE [op |-> "admin_revoke", token_jti |-> token_jti,
                            raised |-> detail]
    /\ UNCHANGED <<now, ticks, uuids, _revoked_jtis, _valid_refresh_jtis,
                   delivered, pc, local, passed, boot>>

\* ---------------------------------------------------------- process restart
\* a restart that fills _valid_refresh_jtis from the refresh rows that are
\* not revoked
Restart_Seeding ==
    /\ _revoked_jtis' = {}
    /\ _valid_refresh_jtis' =
           {tokens_table[i].jti : i \in {k \in 1..Len(tokens_table) :
                                           /\ tokens_table[k].token_type = "refresh"
                                           /\ ~tokens_table[k].revoked}}
    /\ pc' = [t \in Threads |-> "idle"]
    /\ local' = [t \in Threads |-> NoToken]
    /\ boot' = uuids
    /\ last' = [op |-> "restart", revoked_before |-> _revoked_jtis]
    /\ UNCHANGED <<now, ticks, uuids, tokens_table, delivered, passed>>

\* a restart of a process that keeps _revoked_jtis
Restart_KeepingIndex ==
    /\ _valid_refresh_jtis' = {}
    /\ pc' = [t \in Threads |-> "idle"]
    /\ local' = [t \in Threads |-> NoToken]
    /\ boot' = uuids
    /\ last' = [op |-> "restart", revoked_before |-> _revoked_jtis]
    /\ UNCHANGED <<now, ticks, uuids, tokens_table, _revoked_jtis, delivered,
                   passed>>

\* the module is loaded again: both sets are empty (lines 48-49) and the
\* requests in flight are gone; the database and the callers' tokens stay
Restart ==
    /\ _revoked_jtis' = {}
    /\ _valid_refresh_jtis' = {}
    /\ pc' = [t \in Threads |-> "idle"]
    /\ local' = [t \in Threads |-> NoToken]
    /\ boot' = uuids
    /\ last' = [op |-> "restart", revoked_before |-> _revoked_jtis]
    /\ UNCHANGED <<now, ticks, uuids, tokens_table, delivered, passed>>

\* --------------------------------------------------------- specifications
\* requests are served concurrently by the thread pool
Next ==
    \/ \E d \in TickSteps : Tick(d)
    \/ \E n \in Usernames, p, c1, c2 \in BOOLEAN : login_user(n, p, c1, c2)
    \/ \E c \in Presented : Verify(c, TRUE, TRUE)
    \/ \E t \in Threads, c \in Presented : RefreshVerify(t, c)
    \/ \E t \in Threads : RefreshCheck(t)
    \/ \E t \in Threads : RefreshDiscard(t)
    \/ \E t \in Threads : RefreshAdd(t)
    \/ \E t \in Threads, c1, c2 \in BOOLEAN : RefreshIssue(t, c1, c2)
    \/ \E r, a \in Cookies : logout(r, a)
    \/ \E j \in Jtis, c \in Cookies : admin_revoke(j, c)
    \/ Restart

Spec == Init /\ [][Next]_vars

\* no request is in flight
Quiet == \A t \in Threads : pc[t] = "idle"

\* requests are served one after the other
NextSeq ==
    \/ \E d \in TickSteps : Tick(d)
    \/ Quiet /\ \E n \in Usernames, p, c1, c2 \in BOOLEAN : login_user(n, p, c1, c2)
    \/ Quiet /\ \E c \in Presented : Verify(c, TRUE, TRUE)
    \/ Quiet /\ \E t \in Threads, c \in Presented : RefreshVerify(t, c)
    \/ \E t \in Threads : RefreshCheck(t)
    \/ \E t \in Threads : RefreshDiscard(t)
    \/ \E t \in Threads : RefreshAdd(t)
    \/ \E t \in Threads, c1, c2 \in BOOLEAN : RefreshIssue(t, c1, c2)
    \/ Quiet /\ \E r, a \in Cookies : logout(r, a)
    \/ Quiet /\ \E j \in Jtis, c \in Cookies : admin_revoke(j, c)
    \/ Restart

SpecSeq == Init /\ [][NextSeq]_vars

\* verify_jwt_token_strict applied to every kind of token, with every
\* combination of its two switches, in the states logins, one rotation and
\* the clock lead to
NextVerify ==
    \/ \E d \in TickSteps : Tick(d)
    \/ \E n \in Usernames, p \in BOOLEAN : login_user(n, p, TRUE, TRUE)
    \/ \E c \in VerifyInputs, ca, ci \in BOOLEAN : Verify(c, ca, ci)
    \/ Quiet /\ \E c \in delivered : RefreshVerify(1, c)
    \/ RefreshCheck(1)
    \/ RefreshDiscard(1)
    \/ RefreshAdd(1)
    \/ RefreshIssue(1, TRUE, TRUE)

SpecVerify == Init /\ [][NextVerify]_vars

\* POST /token/refresh given every kind of cookie, one request after the
\* other, in the states logins, revocations, the clock and restarts lead to
NextRotate ==
    \/ \E d \in TickSteps : Tick(d)
    \/ Quiet /\ \E n \in Usernames, p \in BOOLEAN : login_user(n, p, TRUE, TRUE)
    \/ Quiet /\ \E t \in Threads, c \in VerifyInputs : RefreshVerify(t, c)
    \/ \E t \in Threads : RefreshCheck(t)
    \/ \E t \in Threads : RefreshDiscard(t)
    \/ \E t \in Threads : RefreshAdd(t)
    \/ \E t \in Threads : RefreshIssue(t, TRUE, TRUE)
    \/ Quiet /\ \E r, a \in delivered : logout(r, a)
    \/ Restart

SpecRotate == Init /\ [][NextRotate]_vars

\* -------------------------------------- create_access_token_for_user alone
\* values of the extra argument: none, a claim the payload does not have, and
\* claims the payload has
Extras ==
    {NoExtra, [scope |-> "posts"], [role |-> "admin"], [jti |-> 0],
     [type |-> "refresh"]}

\* a call of create_access_token_for_user with a session and an extra dict
IssueAccess(user, extra, commit_ok) ==
    /\ uuids < MaxJti
    /\ LET r == create_access_token_for_user(State, user, Session(commit_ok),
                                             extra, NoExpiry)
       IN  /\ uuids' = r.st.uuids
           /\ tokens_table' = r.st.table
           /\ IF r.raised = None
              THEN /\ delivered' = delivered \cup {r.ret.token}
                   /\ last' = [op |-> "issue_access", extra |-> extra,
                               raised |-> None, ret |-> r.ret]
              ELSE /\ delivered' = delivered
                   /\ last' = [op |-> "issue_access", extra |-> extra,
                               raised |-> r.raised]
    /\ UNCHANGED <<now, ticks, _revoked_jtis, _valid_refresh_jtis, pc, local,
                   passed, boot>>

\* the access-token issuer called with every extra, and the verifier on what
\* it returned
NextIssue ==
    \/ \E d \in TickSteps : Tick(d)
    \/ \E u \in Users, e \in Extras, c \in BOOLEAN : IssueAccess(u, e, c)
    \/ \E c \in delivered : Verify(c, TRUE, TRUE)

SpecIssue == Init /\ [][NextIssue]_vars

\* ------------------------------------------------------------ properties
JtiOf(token) == token.claims.jti

\* a refresh token a login handed out
IsIssuedRefresh(token) == token \in delivered /\ token.claims.type = "refresh"

\* the rejections /token/refresh raises before it retires anything
RefreshRejections ==
    {"Missing refresh token", "Token expired", "Token invalid",
     "Invalid token issuer", "Token revoked", "Not a refresh token",
     "Refresh token invalid or revoked"}

\* the threads that are past the membership check of line 233
PastCheck(t) == pc[t] \in {"discard", "add", "issue"}

\* rows of the tokens table with a given jti
RowsOf(jti) == {i \in 1..Len(tokens_table) : tokens_table[i].jti = jti}

\* C1: when requests are served one after the other, at most one rotate
\* request takes a given refresh token past the membership check (and so to
\* retirement and issuance); the one that does found it in
\* _valid_refresh_jtis, so a rotate that starts after the token was retired
\* is rejected and delivers nothing.
C1_RotatesAtMostOnce ==
    /\ [](/\ \A j \in Jtis : passed[j] <= 1
          /\ \A t \in Threads :
                pc[t] = "discard" =>
                    /\ OldJti(t) \in _valid_refresh_jtis
                    /\ OldJti(t) \notin _revoked_jtis
                    /\ passed[OldJti(t)] = 1)
    /\ [][(last'.op = "refresh" /\ last'.raised \in RefreshRejections) =>
             UNCHANGED <<uuids, tokens_table, delivered, passed,
                         _valid_refresh_jtis, _revoked_jtis>>]_vars

\* C1 witness: a refresh token went through rotation once and the replay of
\* it has just been rejected.
C1_Witness ==
    /\ last.op = "refresh"
    /\ IsIssuedRefresh(last.token)
    /\ passed[JtiOf(last.token)] = 1
    /\ last.raised \in {"Token revoked", "Refresh token invalid or revoked"}

\* C2: of the rotate requests that present the same refresh token at the
\* same time, no two are past the membership check: exactly one observed it
\* as valid.
C2_OneObservesValid ==
    \A t1, t2 \in Threads :
        (t1 # t2 /\ PastCheck(t1) /\ PastCheck(t2)) => OldJti(t1) # OldJti(t2)

\* C3: a rotate of a fresh refresh token that was not rejected, whose owner
\* exists and whose store writes succeed, answers with a new access and a
\* new refresh token of the same user, each with a store row; the new
\* refresh token passes verify and its jti is in _valid_refresh_jtis.
C3_RotateReturnsNewPair ==
    (/\ last.op = "refresh"
     /\ last.raised \notin RefreshRejections \cup {"User not found", "SQLAlchemyError"})
    => /\ last.raised = None
       /\ last.refresh_token.claims.user_id = last.token.claims.user_id
       /\ last.access_token.claims.user_id = last.token.claims.user_id
       /\ RowsOf(JtiOf(last.refresh_token)) # {}
       /\ RowsOf(JtiOf(last.access_token)) # {}
       /\ JtiOf(last.refresh_token) \in _valid_refresh_jtis
       /\ verify_jwt_token_strict(last.refresh_token, TRUE, TRUE).raised = None

\* a rotate request answered with a rejection, for an issued refresh token
\* that has not expired and that an earlier request took past the check
RejectedReplay ==
    /\ last.op = "refresh"
    /\ IsIssuedRefresh(last.token)
    /\ last.token.claims.exp >= now
    /\ passed[JtiOf(last.token)] >= 1
    /\ last.raised \in RefreshRejections

\* C4 (as claimed): a second rotate of the same refresh token is rejected
\* with "Refresh token invalid or revoked", the outcome of the membership
\* check, and with no other rejection.
C4_ReplayIsInvalidOrRevoked ==
    RejectedReplay => last.raised = "Refresh token invalid or revoked"

\* C4 (amended): a rotate of an unexpired refresh token that starts after an
\* earlier rotate retired it is rejected with "Token revoked" by the
\* verification that comes first, as long as its jti is in _revoked_jtis, and
\* with "Refresh token invalid or revoked" only when it is not (the process
\* was restarted); a rotate that is not rejected is the only one that ever
\* took its token past the check.
C4_ReplayRejection ==
    /\ RejectedReplay =>
           last.raised = IF JtiOf(last.token) \in _revoked_jtis
                         THEN "Token revoked"
                         ELSE "Refresh token invalid or revoked"
    /\ (/\ last.op = "refresh"
        /\ IsIssuedRefresh(last.token)
        /\ last.raised \notin RefreshRejections)
       => passed[JtiOf(last.token)] = 1

\* C4 witness: a replay was rejected by the verification
C4_Witness == RejectedReplay /\ last.raised = "Token revoked"

\* a logout that decoded both cookies and marked their rows
EffectiveLogout ==
    /\ last.op = "logout"
    /\ IsIssuedRefresh(last.refresh_token)
    /\ last.access_token \in delivered
    /\ last.access_token.claims.type = "access"
    /\ \A c \in {last.refresh_token, last.access_token} :
          \E i \in RowsOf(JtiOf(c)) : tokens_table[i].revoked

\* C5: after logout revoked the access and the refresh token it was given,
\* verify of either fails with "Token revoked".
C5_LoggedOutTokensFailVerify ==
    EffectiveLogout =>
        \A c \in {last.refresh_token, last.access_token} :
            verify_jwt_token_strict(c, TRUE, TRUE).raised = "Token revoked"

\* C6: after logout with a refresh token, its jti is out of
\* _valid_refresh_jtis and in _revoked_jtis.
C6_LogoutRetiresRefresh ==
    EffectiveLogout =>
        /\ JtiOf(last.refresh_token) \notin _valid_refresh_jtis
        /\ JtiOf(last.refresh_token) \in _revoked_jtis

\* C7: right after a login issued an access token for a user, verify of that
\* token returns its claims, with sub "user_<id>", user_id the user's id and
\* permissions the user's, or {"read_post"} when the user has none.
C7_IssueThenVerify ==
    (last.op = "login" /\ last.raised = None) =>
        LET user == UserByName(last.username)
            v == verify_jwt_token_strict(last.access.token, TRUE, TRUE)
        IN  /\ v.raised = None
            /\ v.payload.sub = <<"user_", user.id>>
            /\ v.payload.user_id = user.id
            /\ v.payload.permissions =
                   IF user.permissions = {} THEN {"read_post"}
                   ELSE user.permissions

\* C7 witness: a login of the user without permissions
C7_Witness ==
    /\ last.op = "login"
    /\ last.raised = None
    /\ UserByName(last.username).permissions = {}

\* C8: every token handed to a caller has exactly one row with its jti, every
\* jti in _valid_refresh_jtis has a refresh row, and a login whose store
\* write failed hands out no token and leaves the jti it drew without a row
\* and out of _valid_refresh_jtis.
C8_NoPartialIssuance ==
    /\ \A tok \in delivered : Cardinality(RowsOf(JtiOf(tok))) = 1
    /\ \A j \in _valid_refresh_jtis :
          \E i \in RowsOf(j) : tokens_table[i].token_type = "refresh"
    /\ (last.op = "login" /\ last.raised = "SQLAlchemyError") =>
          /\ DOMAIN last \cap {"access", "refresh"} = {}
          /\ RowsOf(Uuid(uuids)) = {}
          /\ Uuid(uuids) \notin _valid_refresh_jtis
          /\ \A tok \in delivered : JtiOf(tok) # Uuid(uuids)

\* C8 witness: the access token was stored, then the refresh token's store
\* write failed.
C8_Witness ==
    /\ last.op = "login"
    /\ last.raised = "SQLAlchemyError"
    /\ Len(tokens_table) = 1
    /\ tokens_table[1].token_type = "access"

\* C9: a call of verify_jwt_token_strict, whatever it answers, changes
\* neither of the two sets nor any row of the tokens table.
C9_VerifyReadOnly ==
    [][last'.op = "verify" =>
          UNCHANGED <<_revoked_jtis, _valid_refresh_jtis, tokens_table>>]_vars

\* C9 witness: verify has answered "Token revoked", with a retired jti in
\* the index and rows in the table.
C9_Witness ==
    /\ last.op = "verify"
    /\ last.result.raised = "Token revoked"
    /\ tokens_table # <<>>

\* the answer the ordered checks give: missing, signature, expiry, audience
\* (if checked), issuer (if checked), revocation
FirstFailingCheck(token, check_audience, check_issuer) ==
    IF token = NoToken THEN "Missing token"
    ELSE IF token.signed_by # PRIVATE_KEY \/ token.alg # ALGORITHM
        THEN "Token invalid"
    ELSE IF token.claims.exp < now THEN "Token expired"
    ELSE IF check_audience /\ token.claims.aud # AUDIENCE THEN "Token invalid"
    ELSE IF check_issuer /\ token.claims.iss # ISSUER THEN "Invalid token issuer"
    ELSE IF token.claims.jti \in _revoked_jtis THEN "Token revoked"
    ELSE None

\* C10: verify answers with the first failing check of the order missing,
\* signature, expiry, audience (if checked), issuer (if checked), revoked,
\* and returns the claims only when every enabled check passes.
C10_FirstFailingCheck ==
    last.op = "verify" =>
        /\ last.result.raised =
               FirstFailingCheck(last.token, last.check_audience,
                                 last.check_issuer)
        /\ last.result.raised = None => last.result.payload = last.token.claims

\* the rejections of /admin/revoke that come before the row is looked up
AdminRejections ==
    {"Not authenticated", "Missing token", "Token expired", "Token invalid",
     "Invalid token issuer", "Token revoked", "Admins only"}

\* C11: a revoke (admin revoke or logout) of a jti whose row is already
\* revoked does not fail and leaves the whole table as it was, that row
\* still revoked; and no revoke changes a row that is already revoked.
C11_RevokeIdempotent ==
    [][/\ last'.op \in {"admin_revoke", "logout"} =>
             /\ Len(tokens_table') = Len(tokens_table)
             /\ \A i \in 1..Len(tokens_table) :
                   tokens_table[i].revoked => tokens_table'[i] = tokens_table[i]
       /\ (/\ last'.op = "admin_revoke"
           /\ last'.raised \notin AdminRejections
           /\ RowsOf(last'.token_jti) # {}
           /\ \A i \in RowsOf(last'.token_jti) : tokens_table[i].revoked)
          => /\ last'.raised = None
             /\ tokens_table' = tokens_table
       /\ (/\ last'.op = "logout"
           /\ \A c \in {last'.refresh_token, last'.access_token} \ {NoToken} :
                 \A i \in RowsOf(JtiOf(c)) : tokens_table[i].revoked)
          => tokens_table' = tokens_table]_vars

\* C11 witness: an admin revoke has succeeded on a row that was already
\* revoked.
C11_Witness ==
    /\ last.op = "admin_revoke"
    /\ last.raised = None
    /\ last.was_revoked
    /\ \A i \in RowsOf(last.token_jti) : tokens_table[i].revoked

\* C12: in every step the tokens table keeps all its rows in place, and a
\* row either stays as it is or has its revoked flag go from FALSE to TRUE
\* with every other field kept: the flag never returns to FALSE, no row is
\* deleted, no other field changes after issuance.
C12_RevokedOneWay ==
    [][/\ Len(tokens_table') >= Len(tokens_table)
       /\ \A i \in 1..Len(tokens_table) :
             \/ tokens_table'[i] = tokens_table[i]
             \/ /\ ~tokens_table[i].revoked
                /\ tokens_table'[i] = [tokens_table[i] EXCEPT !.revoked = TRUE]]_vars

\* C12 witness: a rotate ran to its end with a refresh token whose row had
\* been revoked, and the row is still there and revoked.
C12_Witness ==
    /\ last.op = "refresh"
    /\ last.raised \notin RefreshRejections
    /\ \E i \in RowsOf(JtiOf(last.token)) : tokens_table[i].revoked

\* the steps of /token/refresh that come before the issuing calls
BeforeIssue ==
    {"refresh_verified", "refresh_checked", "refresh_discarded",
     "refresh_added"}

\* C13: a rotate request reaches its issuing calls only with its old jti out
\* of _valid_refresh_jtis and in _revoked_jtis, and the steps before them
\* issue nothing; a rotate that got that far, however it ended, leaves the
\* old jti out of _valid_refresh_jtis; and a jti that was retired never
\* returns to _valid_refresh_jtis, never passes the membership check again,
\* and stays in _revoked_jtis for as long as the process runs.
C13_RetireBeforeIssue ==
    /\ [](/\ \A t \in Threads :
                pc[t] = "issue" =>
                    /\ OldJti(t) \notin _valid_refresh_jtis
                    /\ OldJti(t) \in _revoked_jtis
          /\ (last.op = "refresh" /\ last.raised \notin RefreshRejections) =>
                JtiOf(last.token) \notin _valid_refresh_jtis)
    /\ [][/\ last'.op \in BeforeIssue =>
                 UNCHANGED <<uuids, tokens_table, delivered>>
           /\ \A j \in Jtis :
                 (passed[j] >= 1 /\ j \notin _valid_refresh_jtis) =>
                     /\ j \notin _valid_refresh_jtis'
                     /\ passed'[j] = passed[j]
                     /\ (j \in _revoked_jtis /\ last'.op # "restart") =>
                            j \in _revoked_jtis']_vars

\* C13 witness: a rotate retired its token, failed in the issuing calls, and
\* a later rotate with the same token has been rejected.
C13_Witness ==
    /\ last.op = "refresh"
    /\ last.raised \in RefreshRejections
    /\ IsIssuedRefresh(last.token)
    /\ passed[JtiOf(last.token)] = 1
    /\ JtiOf(last.token) \in _revoked_jtis
    /\ JtiOf(last.token) \notin _valid_refresh_jtis
    /\ Len(tokens_table) = 2

\* C14: every jti that rotation put into _revoked_jtis has its row in the
\* tokens table marked revoked.
C14_RetirementReachesStore ==
    \A j \in _revoked_jtis : \E i \in RowsOf(j) : tokens_table[i].revoked

\* C15: a rotate request that is rejected before retirement (missing token,
\* signature, expiry, audience, issuer, revoked, not a refresh token, not in
\* _valid_refresh_jtis) leaves both sets and every row as they were; an access
\* token that passes verify is rejected with "Not a refresh token".
C15_RejectedRotateChangesNothing ==
    /\ []((/\ last.op = "refresh"
           /\ last.token \in delivered
           /\ last.token.claims.type = "access"
           /\ verify_jwt_token_strict(last.token, TRUE, TRUE).raised = None)
          => last.raised = "Not a refresh token")
    /\ [][(last'.op = "refresh" /\ last'.raised \in RefreshRejections) =>
             UNCHANGED <<_revoked_jtis, _valid_refresh_jtis, tokens_table>>]_vars

\* C15 witness: an access token was presented to /token/refresh and rejected
\* as not a refresh token, with a refresh jti still in _valid_refresh_jtis.
C15_Witness ==
    /\ last.op = "refresh"
    /\ last.raised = "Not a refresh token"
    /\ last.token.claims.type = "access"
    /\ _valid_refresh_jtis # {}
    /\ _revoked_jtis = {}

\* C16: an admin revoke leaves both sets as they were and, when it succeeds,
\* leaves the row of the jti revoked (when it fails, the table as it was);
\* the verifier does not read the rows, so an unexpired token handed out by
\* a login passes verify whenever its jti is not in _revoked_jtis, its row
\* revoked or not.
C16_AdminRevokeStoreOnly ==
    /\ [](\A tok \in delivered :
              (/\ \E i \in RowsOf(JtiOf(tok)) : tokens_table[i].revoked
               /\ JtiOf(tok) \notin _revoked_jtis
               /\ tok.claims.exp >= now)
              => verify_jwt_token_strict(tok, TRUE, TRUE).raised = None)
    /\ [][last'.op = "admin_revoke" =>
             /\ UNCHANGED <<_revoked_jtis, _valid_refresh_jtis>>
             /\ IF last'.raised = None
                THEN tokens_table'[FirstRow(tokens_table, last'.token_jti)].revoked
                ELSE tokens_table' = tokens_table]_vars

\* C16 witness: an admin has just revoked the row of a refresh token that
\* was not revoked before; the token still passes verify and its jti is
\* still in _valid_refresh_jtis, so it can still rotate.
C16_Witness ==
    /\ last.op = "admin_revoke"
    /\ last.raised = None
    /\ ~last.was_revoked
    /\ \E tok \in delivered :
          /\ tok.claims.type = "refresh"
          /\ JtiOf(tok) = last.token_jti
          /\ tokens_table[FirstRow(tokens_table, JtiOf(tok))].revoked
          /\ verify_jwt_token_strict(tok, TRUE, TRUE).raised = None
          /\ JtiOf(tok) \in _valid_refresh_jtis

\* C17: a restart empties both sets and keeps the tokens table; every token
\* that verify rejected with "Token revoked" before the restart passes
\* verify after it (such a token has not expired, expiry being checked
\* first).
C17_RestartForgetsRevocations ==
    [][last'.op = "restart" =>
          /\ _revoked_jtis' = {}
          /\ _valid_refresh_jtis' = {}
          /\ tokens_table' = tokens_table
          /\ \A tok \in delivered :
                verify_jwt_token_strict(tok, TRUE, TRUE).raised = "Token revoked"
                => (verify_jwt_token_strict(tok, TRUE, TRUE).raised = None)']_vars

\* C17 witness: the process has restarted with the jti of an unexpired token
\* in _revoked_jtis, and the token passes verify.
C17_Witness ==
    /\ last.op = "restart"
    /\ tokens_table # <<>>
    /\ \E tok \in delivered :
          /\ JtiOf(tok) \in last.revoked_before
          /\ tok.claims.exp >= now
          /\ verify_jwt_token_strict(tok, TRUE, TRUE).raised = None

\* C18: a jti enters _revoked_jtis only in the add step of a rotate request
\* that took it past the membership check, so every jti in _revoked_jtis is
\* that of a refresh row; every access token handed out that has not expired
\* passes verify, and verify never answers "Token revoked" for one.
C18_OnlyRefreshJtisRevoked ==
    /\ [](/\ \A j \in _revoked_jtis :
                /\ passed[j] >= 1
                /\ \E i \in RowsOf(j) : tokens_table[i].token_type = "refresh"
          /\ \A tok \in delivered :
                (tok.claims.type = "access" /\ tok.claims.exp >= now) =>
                    verify_jwt_token_strict(tok, TRUE, TRUE).raised = None
          /\ (/\ last.op = "verify"
              /\ last.token \in delivered
              /\ last.token.claims.type = "access")
             => last.result.raised \in {None, "Token expired"})
    /\ [][\A j \in _revoked_jtis' \ _revoked_jtis :
             /\ last'.op = "refresh_added"
             /\ pc[last'.thread] = "add"
             /\ j = OldJti(last'.thread)]_vars

\* C18 witness: verify has passed an access token after logout revoked its
\* row and a rotate retired the refresh token issued with it.
C18_Witness ==
    /\ last.op = "verify"
    /\ last.token \in delivered
    /\ last.token.claims.type = "access"
    /\ last.result.raised = None
    /\ \E i \in RowsOf(JtiOf(last.token)) : tokens_table[i].revoked
    /\ _revoked_jtis # {}

\* a refresh token handed out before the process last started
IssuedBeforeRestart(token) == IsIssuedRefresh(token) /\ JtiOf(token) <= boot

\* C19: _valid_refresh_jtis grows only by jtis drawn in the same step, so no
\* jti drawn before the process last started is in it; a refresh token
\* issued before the restart that has not expired passes verify, and a
\* rotate request with it is answered "Refresh token invalid or revoked";
\* a rotate rejected that way changes no set, row, draw count or handed-out
\* token.
C19_NotSeededAfterRestart ==
    /\ [](/\ \A j \in 1..boot : j \notin _valid_refresh_jtis
          /\ \A tok \in delivered :
                (IssuedBeforeRestart(tok) /\ tok.claims.exp >= now) =>
                    verify_jwt_token_strict(tok, TRUE, TRUE).raised = None
          /\ (/\ last.op = "refresh"
              /\ IssuedBeforeRestart(last.token)
              /\ last.token.claims.exp >= now)
             => last.raised = "Refresh token invalid or revoked")
    /\ [][/\ _valid_refresh_jtis' \ _valid_refresh_jtis
                 \subseteq (uuids + 1)..uuids'
           /\ (/\ last'.op = "refresh"
               /\ last'.raised = "Refresh token invalid or revoked")
              => UNCHANGED <<_revoked_jtis, _valid_refresh_jtis, tokens_table,
                             uuids, delivered>>]_vars

\* C19 witness: a refresh token that never went through rotation was issued
\* before the restart, and a rotate with it has just been rejected.
C19_Witness ==
    /\ last.op = "refresh"
    /\ IssuedBeforeRestart(last.token)
    /\ passed[JtiOf(last.token)] = 0
    /\ last.raised = "Refresh token invalid or revoked"
    /\ verify_jwt_token_strict(last.token, TRUE, TRUE).raised = None

\* C20: for every access token create_access_token_for_user returns,
\* whatever extra it was given, the jti and type claims of the token are the
\* jti and token_type ("access") of the row the call wrote, and the returned
\* jti is the token's jti claim.
C20_TokenMatchesRow ==
    (last.op = "issue_access" /\ last.raised = None) =>
        LET claims == last.ret.token.claims
            row == tokens_table[Len(tokens_table)]
        IN  /\ row.token_type = "access"
            /\ claims.type = row.token_type
            /\ claims.jti = row.jti
            /\ last.ret.jti = claims.jti

====
